---- MODULE Spec2Model ----
(***************************************************************************)
(* Streaming response processor of llm-go.                                 *)
(*                                                                         *)
(* The model follows llm.Client.StreamResponse (the producing goroutine)   *)
(* and main.processResponse (the consuming caller) statement by statement, *)
(* cut into atomic steps at the points where a goroutine can block: the    *)
(* wait for the next transport event, the send on the unbuffered chunk     *)
(* channel, the receive of the consumer and the hand-over of the result.   *)
(* Strings are sequences of one-character strings, so that the delimiter   *)
(* comparisons and the substring searches are computed, not assumed.       *)
(* Time is a logical clock: every time.Now() of one step reads the same     *)
(* instant, and each wait (for the user, for the transport) takes one unit. *)
(* The two helpers of main that cut the thinking block out of a response    *)
(* are checked on their own, in HelperSpec, over strings put together from  *)
(* the delimiters, a letter and white space.                                *)
(* SplitSpec runs the sessions over fragments cut inside and around the     *)
(* delimiters. ConfigSpec, ModelSpec and StatsSpec apply LoadConfig,        *)
(* CheckModelExists and the JSON statistics of displayResults to inputs     *)
(* drawn from small sets, and LoopSpec follows runConversationLoop over a   *)
(* standard input of a few lines, with each session taken as one step.      *)
(***************************************************************************)
EXTENDS Integers, Sequences, FiniteSets, TLC

(* ------------------------------ bounds -------------------------------- *)
MaxSessions == 2      \* calls of processResponse on one client
MaxEvents   == 4      \* transport events delivered over all sessions
MaxPieces   == 4      \* pieces of a string handed to the block helpers
MaxLines    == 3      \* reads of standard input before its end

(* ----------------------------- strings -------------------------------- *)
startThinkTag == <<"<", "t", "h", "i", "n", "k", ">">>
endThinkTag   == <<"<", "/", "t", "h", "i", "n", "k", ">">>

Empty     == << >>
Reasoning == <<"r", "e", "a", "s", "o", "n", "i", "n", "g">>
Answer    == <<"a", "n", "s", "w", "e", "r">>

\* delta.Content of the chunks the transport may deliver
Contents == {startThinkTag, endThinkTag, Reasoning, Answer, Empty}

\* (PromptTokens, CompletionTokens) of the chunks the transport may deliver
Usages == {<<0, 0>>, <<0, 1>>, <<1, 2>>}

\* openai.ChatCompletionChunk, reduced to the fields StreamResponse reads.
\* The request sets IncludeUsage, and the usage summary then comes in chunks
\* without text: either no choice at all or a choice with empty content.
Chunks ==
  {[choices |-> 1, content |-> t, usage |-> <<0, 0>>] : t \in Contents \ {Empty}}
  \cup [choices : {0, 1}, content : {Empty}, usage : Usages]

WhiteSpace == {" ", "\n", "\t"}

Min(S) == CHOOSE x \in S : \A y \in S : x <= y

\* strings.Index: the 0-based position of the first occurrence, or -1
Index(s, sub) ==
  LET at == {i \in 0..(Len(s) - Len(sub)) : SubSeq(s, i + 1, i + Len(sub)) = sub}
  IN  IF at = {} THEN -1 ELSE Min(at)

\* s[from:] of Go, 0-based
SliceFrom(s, from) == SubSeq(s, from + 1, Len(s))

\* s[from:to] of Go, 0-based, to excluded
Slice(s, from, to) == SubSeq(s, from + 1, to)

RECURSIVE TrimLeft(_)
TrimLeft(s) ==
  IF s # << >> /\ Head(s) \in WhiteSpace THEN TrimLeft(Tail(s)) ELSE s

RECURSIVE TrimRight(_)
TrimRight(s) ==
  IF s # << >> /\ s[Len(s)] \in WhiteSpace
  THEN TrimRight(SubSeq(s, 1, Len(s) - 1)) ELSE s

\* strings.TrimSpace
TrimSpace(s) == TrimRight(TrimLeft(s))

\* a removal that trims the string also when it has no complete pair
removeThinkingBlocksTrimmed(s) ==
  LET startIdx == Index(s, startThinkTag) IN
  IF startIdx = -1 THEN TrimSpace(s)
  ELSE LET afterStart == SliceFrom(s, startIdx + Len(startThinkTag))
           endIdx     == Index(afterStart, endThinkTag)
       IN  IF endIdx = -1 THEN TrimSpace(s)
           ELSE LET afterEnd == startIdx + Len(startThinkTag) + endIdx + Len(endThinkTag)
                IN  TrimSpace(SliceFrom(s, afterEnd))

\* a removal that cuts the pair out and keeps the text on both sides of it
removeThinkingBlocksKeepBefore(s) ==
  LET startIdx == Index(s, startThinkTag) IN
  IF startIdx = -1 THEN s
  ELSE LET afterStart == SliceFrom(s, startIdx + Len(startThinkTag))
           endIdx     == Index(afterStart, endThinkTag)
       IN  IF endIdx = -1 THEN s
           ELSE LET afterEnd == startIdx + Len(startThinkTag) + endIdx + Len(endThinkTag)
                IN  TrimSpace(Slice(s, 0, startIdx) \o SliceFrom(s, afterEnd))

\* main.removeThinkingBlocks
removeThinkingBlocks(s) ==
  LET startIdx == Index(s, startThinkTag) IN
  IF startIdx = -1 THEN s
  ELSE LET afterStart == SliceFrom(s, startIdx + Len(startThinkTag))
           endIdx     == Index(afterStart, endThinkTag)
       IN  IF endIdx = -1 THEN s
           ELSE LET afterEnd == startIdx + Len(startThinkTag) + endIdx + Len(endThinkTag)
                IN  TrimSpace(SliceFrom(s, afterEnd))

\* an extraction that stops before the end delimiter
extractThinkingBlocksOpen(s) ==
  LET startIdx == Index(s, startThinkTag) IN
  IF startIdx = -1 THEN << >>
  ELSE LET afterStart == SliceFrom(s, startIdx + Len(startThinkTag))
           endIdx     == Index(afterStart, endThinkTag)
       IN  IF endIdx = -1 THEN << >>
           ELSE TrimSpace(Slice(s, startIdx, startIdx + Len(startThinkTag) + endIdx))

\* an extraction that pairs the first start delimiter with the first end
\* delimiter of the whole string
extractThinkingBlocksAnyEnd(s) ==
  LET startIdx == Index(s, startThinkTag)
      endIdx   == Index(s, endThinkTag)
  IN  IF startIdx = -1 \/ endIdx = -1 THEN << >>
      ELSE TrimSpace(Slice(s, startIdx, endIdx + Len(endThinkTag)))

\* main.extractThinkingBlocks
extractThinkingBlocks(s) ==
  LET startIdx == Index(s, startThinkTag) IN
  IF startIdx = -1 THEN << >>
  ELSE LET afterStart == SliceFrom(s, startIdx + Len(startThinkTag))
           endIdx     == Index(afterStart, endThinkTag)
       IN  IF endIdx = -1 THEN << >>
           ELSE LET afterEnd == startIdx + Len(startThinkTag) + endIdx + Len(endThinkTag)
                IN  TrimSpace(Slice(s, startIdx, afterEnd))

(* ------------------------------ state --------------------------------- *)
VARIABLES
  c,                \* llm.Client: token counters and timing fields
  hideThinking,     \* cli flag --hide-thinking, passed to every StreamResponse
  now,              \* the logical clock read by time.Now()
  pc,               \* position of the StreamResponse goroutine
  streamErr,        \* stream.Err() # nil
  fullResponse,     \* strings.Builder fullResponse
  inThinkingBlock,  \* local inThinkingBlock
  responseStarted,  \* local responseStarted
  text,             \* local text, the fragment being sent
  chunkChan,        \* the unbuffered channel: "none", "open" or "closed"
  closes,           \* number of close(chunkChan) executed in this session
  panicked,         \* a close of a closed channel happened
  resultChan,       \* the buffered (capacity 1) result channel
  mainPc,           \* position of the caller in runConversationLoop/processResponse
  result,           \* what processResponse returned last
  received,         \* fragments the range loop of processResponse has received
  events,           \* contents of the chunks delivered so far in this session
  finalized,        \* history: durations and clock at the final lock section
  sessions,         \* number of sessions started
  nEvents,          \* number of transport events delivered
  hist,             \* history: what the sessions did to the accumulator
  str,              \* the string handed to the two block helpers
  blocks,           \* what the helpers returned for str
  cmdline,          \* the flags --model and --temperature as typed
  environ,          \* OPENAI_MODEL and OPENAI_TEMPERATURE of the environment
  config,           \* config.Config as LoadConfig returned it
  lookup,           \* CheckModelExists: the model asked for and the server
  found,            \* what CheckModelExists returned
  stats,            \* llm.Stats handed to displayResults
  jsonStats,        \* the "stats" object displayResults printed
  stdin,            \* standard input of the conversation loop
  pos,              \* the next item of stdin to be read
  loopPc,           \* position of runConversationLoop
  mem,              \* memory.Memory: the messages of the conversation
  outcome,          \* what processResponse returned in this turn
  startedFor,       \* history: the user messages sessions were started for
  turn              \* history: the memory at the top of the turn, and how it went

sessionVars == <<c, hideThinking, now, pc, streamErr, fullResponse,
                 inThinkingBlock, responseStarted, text, chunkChan, closes,
                 panicked, resultChan, mainPc, result, received, events,
                 finalized, sessions, nEvents, hist>>

helperVars == <<str, blocks>>

configVars == <<cmdline, environ, config>>

lookupVars == <<lookup, found>>

statsVars == <<stats, jsonStats>>

loopVars == <<stdin, pos, loopPc, mem, outcome, startedFor, turn>>

extraVars == <<lookupVars, statsVars, loopVars>>

vars == <<sessionVars, helperVars, configVars, extraVars>>

producerVars == <<pc, streamErr, fullResponse, inThinkingBlock,
                  responseStarted, text>>

NoResult == [response |-> << >>, err |-> FALSE, set |-> FALSE]
NotFinalized == [done |-> FALSE, at |-> 0, thinkingDuration |-> 0, responseDuration |-> 0]

\* time.Time{}: the zero instant, for which IsZero() holds
ZeroTime == 0

\* What the history records: the instant of the session's first non-empty
\* fragment (ZeroTime: none yet), the usage summaries with a positive input
\* count the session has received, the sums of the final current counters of
\* the sessions completed so far, and the last operation that touched the
\* accumulator with whether it held c.mutex during the access.
NoHistory ==
  [firstAt |-> ZeroTime, usages |-> << >>, sumIn |-> 0, sumOut |-> 0,
   op |-> "NewClient", locked |-> TRUE]

\* c.mutex.Lock() ... c.mutex.Unlock() around an access of operation op
WithLock(h, op) == [h EXCEPT !.op = op, !.locked = TRUE]

\* an access of operation op with no Lock() before it
WithoutLock(h, op) == [h EXCEPT !.op = op, !.locked = FALSE]

\* the Client returned by NewClient: every field has its zero value
NewClient ==
  [totalInputTokens |-> 0, totalOutputTokens |-> 0,
   currentInputTokens |-> 0, currentOutputTokens |-> 0,
   startTime |-> ZeroTime, endTime |-> ZeroTime,
   thinkingStart |-> ZeroTime, thinkingDuration |-> 0,
   responseStart |-> ZeroTime, responseDuration |-> 0]

(* ---------------------------- configuration --------------------------- *)

\* Temperatures are counted in tenths, so that 0.7 is 7 and 2.0 is 20.
DefaultTemperature == 7
MaxTemperature == 20
DefaultModel == "gpt-4o"

\* the command line without --model and without --temperature
NoFlags ==
  [modelGiven |-> FALSE, model |-> "",
   temperatureGiven |-> FALSE, temperature |-> 0]
NoEnvironment == [OPENAI_MODEL |-> "", OPENAI_TEMPERATURE |-> << >>]
NoConfig == [Model |-> "", Temperature |-> -1, loaded |-> FALSE]

\* cli.go lines 33-35: flag.StringVar with default "", flag.Float64Var with
\* default 0.0
ParseFlags(flags) ==
  [model |-> IF flags.modelGiven THEN flags.model ELSE "",
   temperature |-> IF flags.temperatureGiven THEN flags.temperature ELSE 0]

Digits == <<"0", "1", "2", "3", "4", "5", "6", "7", "8", "9">>
IsDigit(ch) == \E i \in DOMAIN Digits : Digits[i] = ch
DigitValue(ch) == (CHOOSE i \in DOMAIN Digits : Digits[i] = ch) - 1

\* strconv.ParseFloat on the texts d and d.d, in tenths; anything else here is
\* a text ParseFloat rejects
ParseFloat(txt) ==
  IF Len(txt) = 1 /\ IsDigit(txt[1])
  THEN [ok |-> TRUE, value |-> 10 * DigitValue(txt[1])]
  ELSE IF Len(txt) = 3 /\ IsDigit(txt[1]) /\ txt[2] = "." /\ IsDigit(txt[3])
  THEN [ok |-> TRUE, value |-> 10 * DigitValue(txt[1]) + DigitValue(txt[3])]
  ELSE [ok |-> FALSE, value |-> 0]

\* config.go lines 133-135 and 144-146: the range check
InRange(t) == t >= 0 /\ t <= MaxTemperature

\* config.go lines 102-163, the two fields that depend on the command line
LoadConfig(cliModel, cliTemperature, env) ==
  LET model ==
        IF cliModel # "" THEN cliModel
        ELSE IF env.OPENAI_MODEL # "" THEN env.OPENAI_MODEL
        ELSE DefaultModel
      parsed == ParseFloat(env.OPENAI_TEMPERATURE)
      temperature ==
        IF cliTemperature # 0
        THEN IF InRange(cliTemperature) THEN cliTemperature
             ELSE DefaultTemperature
        ELSE IF env.OPENAI_TEMPERATURE # << >> /\ parsed.ok /\ InRange(parsed.value)
             THEN parsed.value
             ELSE DefaultTemperature
  IN  [Model |-> model, Temperature |-> temperature, loaded |-> TRUE]

\* what may be typed and what the environment may hold
CommandLines ==
  {f \in [modelGiven : BOOLEAN, model : {"", "llama3"},
          temperatureGiven : BOOLEAN, temperature : {0, 5, 20, 25, -5}] :
     /\ f.modelGiven <=> f.model # ""
     /\ ~f.temperatureGiven => f.temperature = 0}
Environments ==
  [OPENAI_MODEL : {"", "mistral"},
   OPENAI_TEMPERATURE : {<< >>, <<"a", "b", "c">>, <<"0">>, <<"1", ".", "5">>,
                         <<"2", ".", "5">>}]

(* ------------- CheckModelExists on its own (part_000) ----------------- *)
\* strings.Contains
Contains(s, sub) == Index(s, sub) # -1

\* the texts GetOllamaModelInfo puts into its errors
ConnectFailed ==
  <<"f", "a", "i", "l", "e", "d", " ", "t", "o", " ", "c", "o", "n", "n",
    "e", "c", "t", " ", "t", "o", " ", "O", "l", "l", "a", "m", "a", " ",
    "A", "P", "I", ":", " ">>
ReadFailed ==
  <<"f", "a", "i", "l", "e", "d", " ", "t", "o", " ", "r", "e", "a", "d",
    " ", "A", "P", "I", " ", "r", "e", "s", "p", "o", "n", "s", "e", ":",
    " ">>
ModelQuoted ==
  <<"m", "o", "d", "e", "l", " ", "'">>
NotFoundOnServer ==
  <<"'", " ", "n", "o", "t", " ", "f", "o", "u", "n", "d", " ", "o", "n",
    " ", "s", "e", "r", "v", "e", "r">>
NotFoundOnTheServer ==
  <<"'", " ", "n", "o", "t", " ", "f", "o", "u", "n", "d", " ", "o", "n",
    " ", "t", "h", "e", " ", "s", "e", "r", "v", "e", "r">>
APIError ==
  <<"O", "l", "l", "a", "m", "a", " ", "A", "P", "I", " ", "e", "r", "r",
    "o", "r", " ">>
DecodeFailed ==
  <<"f", "a", "i", "l", "e", "d", " ", "t", "o", " ", "d", "e", "c", "o",
    "d", "e", " ", "A", "P", "I", " ", "r", "e", "s", "p", "o", "n", "s",
    "e", ":", " ">>
BodyFollows ==
  <<".", " ", "B", "o", "d", "y", ":", " ">>

\* the texts CheckModelExists looks for in an error
ModelNotFound ==
  <<"m", "o", "d", "e", "l", " ", "n", "o", "t", " ", "f", "o", "u", "n",
    "d">>
Text404 ==
  <<"4", "0", "4">>

\* http.StatusOK and http.StatusNotFound as fmt prints them with %d
StatusOK ==
  <<"2", "0", "0">>
StatusNotFound ==
  <<"4", "0", "4">>
StatusServerError ==
  <<"5", "0", "0">>

\* what the environment supplies: the names of models, the texts of the
\* errors of net/http and encoding/json, and the bodies of replies that are
\* not a model list
ModelA ==
  <<"l", "l", "a", "m", "a">>
ModelB ==
  <<"q", "w", "e", "n">>
ModelC ==
  <<"p", "h", "i">>
Refused ==
  <<"c", "o", "n", "n", "e", "c", "t", "i", "o", "n", " ", "r", "e", "f",
    "u", "s", "e", "d">>
RefusedAtPort ==
  <<"d", "i", "a", "l", " ", "t", "c", "p", " ", "1", "2", "7", ".", "0",
    ".", "0", ".", "1", ":", "1", "4", "0", "4", "0", ":", " ", "c", "o",
    "n", "n", "e", "c", "t", "i", "o", "n", " ", "r", "e", "f", "u", "s",
    "e", "d">>
UnexpectedEOF ==
  <<"u", "n", "e", "x", "p", "e", "c", "t", "e", "d", " ", "E", "O", "F">>
InvalidCharacter ==
  <<"i", "n", "v", "a", "l", "i", "d", " ", "c", "h", "a", "r", "a", "c",
    "t", "e", "r", " ", "'", "<", "'">>
BodyInternal ==
  <<"i", "n", "t", "e", "r", "n", "a", "l", " ", "e", "r", "r", "o", "r">>
BodyNotFound ==
  <<"m", "o", "d", "e", "l", " ", "n", "o", "t", " ", "f", "o", "u", "n",
    "d">>
BodyPage ==
  <<"<", "h", "1", ">", "4", "0", "4", "<", "/", "h", "1", ">">>
ModelNames == {ModelA, ModelB, ModelC}
APIKeys == {<< >>, <<"k">>}

NoError == [failed |-> FALSE, message |-> << >>]
Errorf(msg) == [failed |-> TRUE, message |-> msg]

\* What the server does with GET /api/tags. kind: "connect" (client.Do
\* fails), "read" (the body cannot be read), "status" (a reply other than
\* 200), "undecodable" (200 with a body that is no JSON), "list" (200 with the
\* list of the installed models).
Reply(kind, cause, status, body, models) ==
  [kind |-> kind, cause |-> cause, status |-> status, body |-> body,
   models |-> models]

Servers ==
  {Reply("connect", x, << >>, << >>, {}) : x \in {Refused, RefusedAtPort}}
  \cup {Reply("read", UnexpectedEOF, StatusOK, << >>, {})}
  \cup {Reply("status", << >>, StatusNotFound, << >>, {})}
  \cup {Reply("status", << >>, StatusServerError, b, {}) : b \in {BodyInternal, BodyNotFound}}
  \cup {Reply("undecodable", InvalidCharacter, StatusOK, b, {}) : b \in {BodyInternal, BodyPage}}
  \cup {Reply("list", << >>, StatusOK, << >>, ms) : ms \in SUBSET ModelNames}

Lookups == [model : ModelNames, apiKey : APIKeys, server : Servers]

\* llm.GetOllamaModelInfo, reduced to whether it returns the model's
\* information or an error, and which. The second request, for the details,
\* changes neither: its failure is ignored (lines 112-150).
GetOllamaModelInfo(server, apiKey, model) ==
  IF server.kind = "connect"
  THEN Errorf(ConnectFailed \o server.cause)
  ELSE IF server.kind = "read"
  THEN Errorf(ReadFailed \o server.cause)
  ELSE IF server.status # StatusOK
  THEN IF server.status = StatusNotFound
       THEN Errorf(ModelQuoted \o model \o NotFoundOnServer)
       ELSE Errorf(APIError \o server.status \o <<":", " ">> \o server.body)
  ELSE IF server.kind = "undecodable"
  THEN Errorf(DecodeFailed \o server.cause \o BodyFollows \o server.body)
  ELSE IF model \notin server.models
  THEN Errorf(ModelQuoted \o model \o NotFoundOnTheServer)
  ELSE NoError

\* llm.CheckModelExists
CheckModelExists(server, apiKey, model) ==
  LET err == GetOllamaModelInfo(server, apiKey, model) IN
  IF err.failed
  THEN IF Contains(err.message, ModelNotFound) \/ Contains(err.message, Text404)
       THEN [exists |-> FALSE, err |-> NoError, set |-> TRUE]
       ELSE [exists |-> FALSE, err |-> err, set |-> TRUE]
  ELSE [exists |-> TRUE, err |-> NoError, set |-> TRUE]

NoLookup == [model |-> << >>, apiKey |-> << >>,
             server |-> Reply("none", << >>, << >>, << >>, {})]
NotChecked == [exists |-> FALSE, err |-> NoError, set |-> FALSE]

(* --------------- the JSON statistics on their own ---------------------- *)
\* time.Millisecond: a time.Duration counts nanoseconds
NanosPerMilli == 1000000

\* time.Duration.Milliseconds: the integer division of Go, which truncates
Milliseconds(d) == d \div NanosPerMilli

\* the counters and durations GetStats may hand to displayResults
TokenCounts == {0, 1, 2}
Durations ==
  {0, 4 * (NanosPerMilli \div 10), 6 * (NanosPerMilli \div 10), NanosPerMilli,
   15 * (NanosPerMilli \div 10)}

StatsValues ==
  [InputTokens : TokenCounts, OutputTokens : TokenCounts,
   ThinkingTime : Durations, ResponseTime : Durations]

\* part_005 lines 249-260: the "stats" object of the JSON output
StatsJSON(st) ==
  [tokens |-> [input  |-> st.InputTokens,
               output |-> st.OutputTokens,
               total  |-> st.InputTokens + st.OutputTokens],
   time   |-> [thinking_ms |-> Milliseconds(st.ThinkingTime),
               response_ms |-> Milliseconds(st.ResponseTime),
               total_ms    |-> Milliseconds(st.ThinkingTime + st.ResponseTime)],
   set    |-> TRUE]

NoStats == [InputTokens |-> 0, OutputTokens |-> 0, ThinkingTime |-> 0, ResponseTime |-> 0]
NoJSON ==
  [tokens |-> [input |-> 0, output |-> 0, total |-> 0],
   time   |-> [thinking_ms |-> 0, response_ms |-> 0, total_ms |-> 0],
   set    |-> FALSE]

(* --------------- the conversation loop on its own: data ---------------- *)
Hello      == <<"h", "i">>
Quit       == <<"/", "q", "u", "i", "t">>
Blank      == <<" ">>
PaddedQuit == <<"/", "q", "u", "i", "t", " ">>
SystemPrompt == <<"s">>

\* What standard input holds. Each item is what one ReadString('\n') finds:
\* a line (its text, the newline taken off) or a read error other than the
\* end of input, with the text read before it. After the items comes the end
\* of input; tail is the text after the last newline.
Line(t)     == [kind |-> "line", text |-> t]
ReadError(t) == [kind |-> "error", text |-> t]
Items == {Line(t) : t \in {Hello, Quit, Empty, Blank, PaddedQuit}} \cup {ReadError(Empty)}

RECURSIVE SeqsUpTo(_, _)
SeqsUpTo(S, n) ==
  IF n = 0 THEN {<< >>}
  ELSE LET shorter == SeqsUpTo(S, n - 1)
       IN  shorter \cup {Append(q, x) : q \in {r \in shorter : Len(r) = n - 1}, x \in S}

Inputs == [items : SeqsUpTo(Items, MaxLines), tail : {Empty, Hello}]

\* the answers a session may return to the loop
Responses == {Answer, startThinkTag \o Reasoning \o endThinkTag \o Answer}

\* openai.UserMessage, AssistantMessage, SystemMessage
Message(role, content) == [role |-> role, content |-> content]

\* memory.go lines 24-41
AddUserMessage(m, content)      == Append(m, Message("user", content))
AddAssistantMessage(m, content) == Append(m, Message("assistant", content))
AddSystemMessage(m, content)    == Append(m, Message("system", content))

\* part_005 lines 136-144: initMemory
initMemory(systemPrompt) ==
  IF systemPrompt # << >> THEN AddSystemMessage(<< >>, systemPrompt) ELSE << >>

\* cli.go lines 80-87: GetUserInput at position p of the input
GetUserInput(in, p) ==
  IF p > Len(in.items)
  THEN [message |-> in.tail, err |-> "EOF"]
  ELSE IF in.items[p].kind = "error"
  THEN [message |-> in.items[p].text, err |-> "other"]
  ELSE [message |-> TrimSpace(in.items[p].text), err |-> "none"]

\* cli.go line 104
ShouldQuit(message) == message = Quit

\* every message is taken for valid
IsValidMessageAlways(message) == TRUE

\* cli.go line 109
IsValidMessage(message) == message # << >>

\* part_005 lines 180-201: handleUserInput, given what GetUserInput returned
handleUserInput(read) ==
  IF read.err # "none"
  THEN IF read.err = "EOF"
       THEN [message |-> << >>, shouldExit |-> TRUE]
       ELSE [message |-> << >>, shouldExit |-> FALSE]
  ELSE IF ShouldQuit(read.message)
  THEN [message |-> read.message, shouldExit |-> TRUE]
  ELSE [message |-> read.message, shouldExit |-> FALSE]

NoInput == [items |-> << >>, tail |-> << >>]
NoTurn  == [before |-> << >>, kind |-> "none"]

\* no helper has been called
NoBlocks ==
  [response |-> << >>, removed |-> FALSE, thinking |-> << >>, extracted |-> FALSE]

\* the parts of the state a specification does not use stay as they are here
IdleHelpers == str = << >> /\ blocks = NoBlocks
IdleConfig ==
  /\ cmdline = NoFlags
  /\ environ = NoEnvironment
  /\ config = LoadConfig(ParseFlags(NoFlags).model,
                         ParseFlags(NoFlags).temperature, NoEnvironment)
IdleLookup == lookup = NoLookup /\ found = NotChecked
IdleStats  == stats = NoStats /\ jsonStats = NoJSON
IdleLoop ==
  /\ stdin = NoInput /\ pos = 1 /\ loopPc = "input" /\ mem = << >>
  /\ outcome = NoResult /\ startedFor = << >> /\ turn = NoTurn

InitSession ==
  /\ c = NewClient
  /\ hideThinking \in BOOLEAN
  /\ now = 1
  /\ pc = "idle"
  /\ streamErr = FALSE
  /\ fullResponse = << >>
  /\ inThinkingBlock = FALSE
  /\ responseStarted = FALSE
  /\ text = << >>
  /\ chunkChan = "none"
  /\ closes = 0
  /\ panicked = FALSE
  /\ resultChan = << >>
  /\ mainPc = "input"
  /\ result = NoResult
  /\ received = << >>
  /\ events = << >>
  /\ finalized = NotFinalized
  /\ sessions = 0
  /\ nEvents = 0
  /\ hist = NoHistory

Init ==
  /\ InitSession
  /\ IdleLookup /\ IdleStats /\ IdleLoop
  /\ str = << >>
  /\ blocks = NoBlocks
  /\ cmdline = NoFlags
  /\ environ = NoEnvironment
  /\ config = LoadConfig(ParseFlags(NoFlags).model,
                         ParseFlags(NoFlags).temperature, NoEnvironment)

(* ------------------- StreamResponse: the lock sections ----------------- *)

\* a reset that clears the lifetime totals as well
ResetInteractionAll(cl, t) ==
  [cl EXCEPT !.currentInputTokens = 0, !.currentOutputTokens = 0,
             !.totalInputTokens = 0, !.totalOutputTokens = 0,
             !.startTime = t, !.thinkingDuration = 0, !.responseDuration = 0]

\* lines 175-181: reset of the current interaction
ResetInteraction(cl, t) ==
  [cl EXCEPT !.currentInputTokens = 0, !.currentOutputTokens = 0,
             !.startTime = t, !.thinkingDuration = 0, !.responseDuration = 0]

\* an update that is made when either count of the summary is positive
RecordUsageAnyCount(cl, u) ==
  IF u[1] > 0 \/ u[2] > 0
  THEN [cl EXCEPT !.currentInputTokens = u[1],
                  !.currentOutputTokens = u[2],
                  !.totalInputTokens = cl.totalInputTokens + u[1],
                  !.totalOutputTokens = cl.totalOutputTokens + u[2]]
  ELSE cl

\* an update that writes the input count and leaves the output count behind
RecordUsageInputOnly(cl, u) ==
  IF u[1] > 0
  THEN [cl EXCEPT !.currentInputTokens = u[1],
                  !.totalInputTokens = cl.totalInputTokens + u[1],
                  !.totalOutputTokens = cl.totalOutputTokens + u[2]]
  ELSE cl

\* lines 201-208: usage data of the chunk
RecordUsage(cl, u) ==
  IF u[1] > 0
  THEN [cl EXCEPT !.currentInputTokens = u[1],
                  !.currentOutputTokens = u[2],
                  !.totalInputTokens = cl.totalInputTokens + u[1],
                  !.totalOutputTokens = cl.totalOutputTokens + u[2]]
  ELSE cl

\* lines 220-227: timing of the first non-empty content
StartResponseTiming(cl, started, t) ==
  IF ~started /\ cl.responseStart = ZeroTime
  THEN [cl EXCEPT !.responseStart = t]
  ELSE cl

\* the start delimiter is never recognised
EntersThinkingNever(inThinking, txt) == FALSE

\* a fragment that begins with the start delimiter opens a thinking block
EntersThinkingOnPrefix(inThinking, txt) ==
  /\ ~inThinking
  /\ Len(txt) >= Len(startThinkTag)
  /\ SubSeq(txt, 1, Len(startThinkTag)) = startThinkTag

\* line 230: the fragment opens a thinking block
EntersThinking(inThinking, txt) == ~inThinking /\ txt = startThinkTag

\* lines 232-238: timing of the transition into thinking
EnterThinkingTiming(cl, t) ==
  LET closed == IF cl.responseStart # ZeroTime
                THEN [cl EXCEPT !.responseDuration = cl.responseDuration + (t - cl.responseStart),
                                !.responseStart = ZeroTime]
                ELSE cl
  IN  [closed EXCEPT !.thinkingStart = t]

\* the end delimiter is never recognised
ExitsThinkingNever(inThinking, txt) == FALSE

\* an end delimiter is taken for the end of a block also outside thinking
ExitsThinkingAnywhere(inThinking, txt) == txt = endThinkTag

\* line 242: the fragment closes the thinking block
ExitsThinking(inThinking, txt) == inThinking /\ txt = endThinkTag

\* a transition out of thinking that does not resume the response timing
ExitThinkingTimingNoResume(cl, t) ==
  IF cl.thinkingStart # ZeroTime
  THEN [cl EXCEPT !.thinkingDuration = cl.thinkingDuration + (t - cl.thinkingStart),
                  !.thinkingStart = ZeroTime]
  ELSE cl

\* lines 244-250: timing of the transition out of thinking
ExitThinkingTiming(cl, t) ==
  LET closed == IF cl.thinkingStart # ZeroTime
                THEN [cl EXCEPT !.thinkingDuration = cl.thinkingDuration + (t - cl.thinkingStart),
                                !.thinkingStart = ZeroTime]
                ELSE cl
  IN  [closed EXCEPT !.responseStart = t]

\* the continue after the end delimiter is missing
SkipsEndTagNever(hide) == FALSE

\* lines 252-254: the end delimiter is skipped when thinking is hidden
SkipsEndTag(hide) == hide

\* thinking is dropped whatever the policy
AcceptedOutsideOnly(hide, inThinking) == ~inThinking

\* every fragment that reaches line 257 is sent and buffered
AcceptedAlways(hide, inThinking) == TRUE

\* with hiding, the fragments inside a thinking block are the ones kept
AcceptedInsideOnly(hide, inThinking) == ~hide \/ inThinking

\* line 257: the fragment is sent and buffered
Accepted(hide, inThinking) == ~hide \/ ~inThinking

\* a final section that records the end and credits no open interval
FinalTimingEndOnly(cl, t) == [cl EXCEPT !.endTime = t]

\* lines 268-279: final timing
FinalTiming(cl, t) ==
  LET ended == [cl EXCEPT !.endTime = t] IN
  IF ended.thinkingStart # ZeroTime
  THEN [ended EXCEPT !.thinkingDuration = ended.thinkingDuration + (t - ended.thinkingStart)]
  ELSE IF ended.responseStart # ZeroTime
  THEN [ended EXCEPT !.responseDuration = ended.responseDuration + (t - ended.responseStart)]
  ELSE ended

\* the partial buffer is returned with the error
ReturnValuePartial(buf, err) == [response |-> buf, err |-> err, set |-> TRUE]

\* lines 286-290: the values returned
ReturnValue(buf, err) ==
  IF err THEN [response |-> << >>, err |-> TRUE, set |-> TRUE]
         ELSE [response |-> buf, err |-> FALSE, set |-> TRUE]

\* the error is returned straight after the loop
AfterLoopErrReturns(err) == IF err THEN "ret" ELSE "final"

\* line 265 to line 267: after the loop comes the final timing
AfterLoop(err) == "final"

\* the channel is closed on the normal path only
AfterFinalErrReturns(err) == IF err THEN "ret" ELSE "close"

\* the channel is left open
AfterFinalReturns(err) == "ret"

\* line 279 to line 281: after the final timing the channel is closed
AfterFinal(err) == "close"

\* line 284 to line 286: after the close the values are returned
AfterClose(err) == "ret"

\* close has no effect
CloseChannelNoop(ch) == ch

\* line 283: close(chunkChan)
CloseChannel(ch) == "closed"

\* the end delimiter is not written to the buffer
WriteStringNoEndTag(buf, txt) == IF txt = endThinkTag THEN buf ELSE buf \o txt

\* line 263: fullResponse.WriteString(text)
WriteString(buf, txt) == buf \o txt

(* --------------------- processResponse: the caller --------------------- *)

\* part_005 lines 206-224: make the channels and start the goroutine
StartSession ==
  /\ mainPc = "input"
  /\ sessions < MaxSessions
  /\ sessions' = sessions + 1
  /\ mainPc' = "range"
  /\ chunkChan' = "open"
  /\ closes' = 0
  /\ resultChan' = << >>
  /\ received' = << >>
  /\ events' = << >>
  /\ finalized' = NotFinalized
  /\ result' = NoResult
  /\ pc' = "reset"
  /\ now' = now + 1
  /\ hist' = [hist EXCEPT !.firstAt = ZeroTime, !.usages = << >>]
  /\ UNCHANGED <<helperVars, configVars, extraVars>>
  /\ UNCHANGED <<c, hideThinking, streamErr, fullResponse,
                 inThinkingBlock, responseStarted, text, panicked, nEvents>>

\* StreamResponse lines 174-195: reset under the lock, open the stream,
\* declare the locals
Reset ==
  /\ pc = "reset"
  /\ c' = ResetInteraction(c, now)
  /\ fullResponse' = << >>
  /\ inThinkingBlock' = FALSE
  /\ responseStarted' = FALSE
  /\ text' = << >>
  /\ streamErr' = FALSE
  /\ pc' = "next"
  /\ hist' = WithLock(hist, "StreamResponse")
  /\ UNCHANGED <<helperVars, configVars, extraVars>>
  /\ UNCHANGED <<hideThinking, now, chunkChan, closes, panicked, resultChan,
                 mainPc, result, received, events, finalized, sessions,
                 nEvents>>

\* only a chunk without choices is skipped
SkipsNoChoiceOnly(e) == e.choices = 0

\* lines 210-217: a chunk without choices or with empty content is skipped
Skips(e) == e.choices = 0 \/ e.content = << >>

\* a producer that goes on to the next chunk without waiting for the consumer
AfterIterationNoWait(send) == "next"

\* lines 257-264: the send on the unbuffered channel blocks the producer until
\* the consumer receives; without a send the loop goes on
AfterIteration(send) == IF send THEN "send" ELSE "next"

\* history of one iteration of the loop: lines 201-208 lock when the usage has
\* a positive input count, lines 220-227 lock for every non-empty fragment
RecordChunk(h, e, t) ==
  LET summary == e.usage[1] > 0
      content == e.choices > 0 /\ e.content # << >>
      h1 == IF summary THEN [h EXCEPT !.usages = Append(@, e.usage)] ELSE h
      h2 == IF content /\ h.firstAt = ZeroTime
            THEN [h1 EXCEPT !.firstAt = t] ELSE h1
  IN  IF summary \/ content THEN WithLock(h2, "StreamResponse") ELSE h2

\* history of the end of a session: its final current counters are summed
RecordFinal(h, cl) ==
  [h EXCEPT !.sumIn = @ + cl.currentInputTokens,
            !.sumOut = @ + cl.currentOutputTokens]

\* lines 197-265: the wait for the next chunk and one iteration of the loop up
\* to the send (or the continue)
NextChunk(e) ==
  /\ pc = "next"
  /\ nEvents < MaxEvents
  /\ nEvents' = nEvents + 1
  /\ events' = Append(events, IF e.choices = 0 THEN << >> ELSE e.content)
  /\ now' = now + 1
  /\ hist' = RecordChunk(hist, e, now')
  /\ LET c1 == RecordUsage(c, e.usage) IN
     IF Skips(e)
     THEN /\ c' = c1
          /\ pc' = "next"
          /\ text' = << >>
          /\ UNCHANGED <<inThinkingBlock, responseStarted>>
     ELSE LET txt    == e.content
              c2     == StartResponseTiming(c1, responseStarted, now')
              enter  == EntersThinking(inThinkingBlock, txt)
              c3     == IF enter THEN EnterThinkingTiming(c2, now') ELSE c2
              in3    == IF enter THEN TRUE ELSE inThinkingBlock
              exit   == ExitsThinking(in3, txt)
              c4     == IF exit THEN ExitThinkingTiming(c3, now') ELSE c3
              in4    == IF exit THEN FALSE ELSE in3
              skip   == exit /\ SkipsEndTag(hideThinking)
              send   == ~skip /\ Accepted(hideThinking, in4)
          IN  /\ c' = c4
              /\ responseStarted' = TRUE
              /\ inThinkingBlock' = in4
              /\ text' = IF send THEN txt ELSE << >>
              /\ pc' = AfterIteration(send)
  /\ UNCHANGED <<helperVars, configVars, extraVars>>
  /\ UNCHANGED <<hideThinking, streamErr, fullResponse, chunkChan, closes,
                 panicked, resultChan, mainPc, result, received, finalized,
                 sessions>>

\* line 261 with part_005 line 227, then line 263: the consumer takes the
\* fragment off the unbuffered channel and the producer, released, appends it
\* to its buffer
Receive ==
  /\ pc = "send"
  /\ mainPc = "range"
  /\ chunkChan = "open"
  /\ received' = Append(received, text)
  /\ fullResponse' = WriteString(fullResponse, text)
  /\ text' = << >>
  /\ pc' = "next"
  /\ UNCHANGED <<helperVars, configVars, extraVars>>
  /\ UNCHANGED <<c, hideThinking, now, streamErr, inThinkingBlock,
                 responseStarted, chunkChan, closes, panicked, resultChan,
                 mainPc, result, events, finalized, sessions, nEvents, hist>>

\* line 197: stream.Next() reports the end of the stream
EndOfStream ==
  /\ pc = "next"
  /\ streamErr' = FALSE
  /\ now' = now + 1
  /\ pc' = AfterLoop(FALSE)
  /\ UNCHANGED <<helperVars, configVars, extraVars>>
  /\ UNCHANGED <<c, hideThinking, fullResponse, inThinkingBlock,
                 responseStarted, text, chunkChan, closes, panicked, resultChan,
                 mainPc, result, received, events, finalized, sessions,
                 nEvents, hist>>

\* line 197: stream.Next() reports a transport error
StreamError ==
  /\ pc = "next"
  /\ streamErr' = TRUE
  /\ now' = now + 1
  /\ pc' = AfterLoop(TRUE)
  /\ UNCHANGED <<helperVars, configVars, extraVars>>
  /\ UNCHANGED <<c, hideThinking, fullResponse, inThinkingBlock,
                 responseStarted, text, chunkChan, closes, panicked, resultChan,
                 mainPc, result, received, events, finalized, sessions,
                 nEvents, hist>>

\* lines 267-279
Finalize ==
  /\ pc = "final"
  /\ c' = FinalTiming(c, now)
  /\ finalized' = [done |-> TRUE, at |-> now,
                   thinkingDuration |-> c.thinkingDuration,
                   responseDuration |-> c.responseDuration]
  /\ hist' = RecordFinal(WithLock(hist, "StreamResponse"), c')
  /\ pc' = AfterFinal(streamErr)
  /\ UNCHANGED <<helperVars, configVars, extraVars>>
  /\ UNCHANGED <<hideThinking, now, streamErr, fullResponse,
                 inThinkingBlock, responseStarted, text, chunkChan, closes,
                 panicked, resultChan, mainPc, result, received, events,
                 sessions, nEvents>>

\* lines 281-284
Close ==
  /\ pc = "close"
  /\ chunkChan' = CloseChannel(chunkChan)
  /\ closes' = closes + 1
  /\ panicked' = (panicked \/ chunkChan = "closed")
  /\ pc' = AfterClose(streamErr)
  /\ UNCHANGED <<helperVars, configVars, extraVars>>
  /\ UNCHANGED <<c, hideThinking, now, streamErr, fullResponse,
                 inThinkingBlock, responseStarted, text, resultChan, mainPc,
                 result, received, events, finalized, sessions, nEvents, hist>>

\* lines 286-290 with part_005 lines 219-223: StreamResponse returns and the
\* goroutine puts the pair into resultChan
Return ==
  /\ pc = "ret"
  /\ Len(resultChan) < 1
  /\ resultChan' = Append(resultChan, ReturnValue(fullResponse, streamErr))
  /\ pc' = "idle"
  /\ UNCHANGED <<helperVars, configVars, extraVars>>
  /\ UNCHANGED <<c, hideThinking, now, streamErr, fullResponse,
                 inThinkingBlock, responseStarted, text, chunkChan, closes,
                 panicked, mainPc, result, received, events, finalized,
                 sessions, nEvents, hist>>

\* part_005 line 227: the range loop ends when the channel is closed
RangeEnds ==
  /\ mainPc = "range"
  /\ chunkChan = "closed"
  /\ mainPc' = "result"
  /\ UNCHANGED <<helperVars, configVars, extraVars>>
  /\ UNCHANGED <<c, hideThinking, now, producerVars, chunkChan, closes,
                 panicked, resultChan, result, received, events, finalized,
                 sessions, nEvents, hist>>

\* the caller goes on to display and store whatever the session returned
AfterResultDisplaysAlways(err) == "display"

\* part_005 lines 164-170: an error is shown and the loop continues with the
\* next input, a response goes to displayResults
AfterResult(err) == IF err THEN "input" ELSE "display"

\* part_005 lines 234-235: result := <-resultChan; return
TakeResult ==
  /\ mainPc = "result"
  /\ resultChan # << >>
  /\ result' = Head(resultChan)
  /\ resultChan' = Tail(resultChan)
  /\ mainPc' = AfterResult(Head(resultChan).err)
  /\ UNCHANGED <<helperVars, configVars, extraVars>>
  /\ UNCHANGED <<c, hideThinking, now, producerVars, chunkChan, closes,
                 panicked, received, events, finalized, sessions, nEvents,
                 hist>>

\* part_005 line 175: the text AddAssistantMessage is called with
StoredResponse == removeThinkingBlocks(result.response)

\* part_005 lines 238-269 and 170-175: displayResults reads the statistics
\* with GetStats (json: the flag --json is set) or prints them with
\* DisplayTokenUsage; both lock c.mutex. The flag is not kept in the state:
\* every use of it considers both values, which covers every run of the
\* program. The loop then stores StoredResponse as the assistant message of
\* the turn; no step here reads the stored messages, and they are not kept in
\* these variables: LoopSpec follows the memory.
DisplayResults(json) ==
  /\ mainPc = "display"
  /\ hist' = WithLock(hist, IF json THEN "GetStats" ELSE "DisplayTokenUsage")
  /\ mainPc' = "input"
  /\ UNCHANGED <<helperVars, configVars, extraVars>>
  /\ UNCHANGED <<c, hideThinking, now, producerVars, chunkChan,
                 closes, panicked, resultChan, result, received, events,
                 finalized, sessions, nEvents>>

\* part_005 lines 150-156: the user quits; without --json the totals are
\* printed by DisplayTotalUsage, which reads them with no Lock()
Exit(json) ==
  /\ mainPc = "input"
  /\ hist' = IF json THEN hist ELSE WithoutLock(hist, "DisplayTotalUsage")
  /\ mainPc' = "exit"
  /\ UNCHANGED <<helperVars, configVars, extraVars>>
  /\ UNCHANGED <<c, hideThinking, now, producerVars, chunkChan,
                 closes, panicked, resultChan, result, received, events,
                 finalized, sessions, nEvents>>

Producer ==
  \/ Reset
  \/ \E e \in Chunks : NextChunk(e)
  \/ EndOfStream
  \/ StreamError
  \/ Finalize
  \/ Close
  \/ Return

Consumer ==
  \/ Receive
  \/ RangeEnds
  \/ TakeResult
  \/ \E json \in BOOLEAN : DisplayResults(json)

Next ==
  \/ StartSession
  \/ Reset
  \/ \E e \in Chunks : NextChunk(e)
  \/ EndOfStream
  \/ StreamError
  \/ Finalize
  \/ Close
  \/ Return
  \/ Receive
  \/ RangeEnds
  \/ TakeResult
  \/ \E json \in BOOLEAN : DisplayResults(json)
  \/ \E json \in BOOLEAN : Exit(json)

Spec == Init /\ [][Next]_vars

\* The goroutines are scheduled fairly, and the transport delivers a finite
\* sequence of events that ends in end-of-stream or an error.
FairSpec == Spec /\ WF_vars(Producer) /\ WF_vars(Consumer)

TypeOK ==
  /\ hideThinking \in BOOLEAN
  /\ now \in 1..(1 + 2 * MaxSessions + MaxEvents)
  /\ pc \in {"idle", "reset", "next", "send", "final", "close", "ret"}
  /\ mainPc \in {"input", "range", "result", "display", "exit"}
  /\ chunkChan \in {"none", "open", "closed"}
  /\ Len(resultChan) <= 1
  /\ sessions \in 0..MaxSessions
  /\ nEvents \in 0..MaxEvents
  /\ hist.locked \in BOOLEAN
  /\ hist.firstAt \in 0..now
  /\ blocks.removed \in BOOLEAN /\ blocks.extracted \in BOOLEAN

\* lines 159-169: GetStats, one read of the four fields under the lock
GetStats(cl) ==
  [InputTokens |-> cl.currentInputTokens,
   OutputTokens |-> cl.currentOutputTokens,
   ThinkingTime |-> cl.thinkingDuration,
   ResponseTime |-> cl.responseDuration]

(* ------------------- the block helpers on any string ------------------ *)

\* the pieces the strings handed to the helpers are put together from
Pieces == {startThinkTag, endThinkTag, <<"a">>, <<" ">>, <<"\n">>}

RECURSIVE Join(_)
Join(ps) == IF ps = << >> THEN << >> ELSE Head(ps) \o Join(Tail(ps))

Strings == {Join(ps) : ps \in UNION {[1..n -> Pieces] : n \in 0..MaxPieces}}

HelperInit ==
  /\ InitSession
  /\ IdleLookup /\ IdleStats /\ IdleLoop
  /\ str \in Strings
  /\ blocks = NoBlocks
  /\ cmdline = NoFlags
  /\ environ = NoEnvironment
  /\ config = LoadConfig(ParseFlags(NoFlags).model,
                         ParseFlags(NoFlags).temperature, NoEnvironment)

\* part_005 line 247, and line 175 for the conversation memory
RemoveThinking ==
  /\ ~blocks.removed
  /\ blocks' = [blocks EXCEPT !.response = removeThinkingBlocks(str),
                              !.removed = TRUE]
  /\ UNCHANGED <<sessionVars, str, configVars, extraVars>>

\* part_005 line 248
ExtractThinking ==
  /\ ~blocks.extracted
  /\ blocks' = [blocks EXCEPT !.thinking = extractThinkingBlocks(str),
                              !.extracted = TRUE]
  /\ UNCHANGED <<sessionVars, str, configVars, extraVars>>

HelperNext ==
  \/ RemoveThinking
  \/ ExtractThinking

HelperSpec == HelperInit /\ [][HelperNext]_vars

(* -------------------- the configuration on its own -------------------- *)

ConfigInit ==
  /\ InitSession
  /\ IdleLookup /\ IdleStats /\ IdleLoop
  /\ str = << >>
  /\ blocks = NoBlocks
  /\ cmdline \in CommandLines
  /\ environ \in Environments
  /\ config = NoConfig

\* part_005 lines 90 and 112: ParseFlags, then LoadConfig with the flags
LoadConfiguration ==
  /\ ~config.loaded
  /\ config' = LoadConfig(ParseFlags(cmdline).model,
                          ParseFlags(cmdline).temperature, environ)
  /\ UNCHANGED <<sessionVars, helperVars, cmdline, environ, extraVars>>

ConfigNext == LoadConfiguration

ConfigSpec == ConfigInit /\ [][ConfigNext]_vars

(* ------------------- CheckModelExists on its own ----------------------- *)

ModelInit ==
  /\ InitSession
  /\ IdleHelpers /\ IdleConfig /\ IdleStats /\ IdleLoop
  /\ lookup \in Lookups
  /\ found = NotChecked

\* part_000 lines 154-166, with the call of GetOllamaModelInfo
CheckModel ==
  /\ ~found.set
  /\ found' = CheckModelExists(lookup.server, lookup.apiKey, lookup.model)
  /\ UNCHANGED <<sessionVars, helperVars, configVars, statsVars, loopVars, lookup>>

ModelNext == CheckModel

ModelSpec == ModelInit /\ [][ModelNext]_vars

(* ------------------- the JSON statistics on their own ------------------ *)

StatsInit ==
  /\ InitSession
  /\ IdleHelpers /\ IdleConfig /\ IdleLookup /\ IdleLoop
  /\ stats \in StatsValues
  /\ jsonStats = NoJSON

\* part_005 lines 245-261: displayResults with --json builds the statistics
DisplayJSON ==
  /\ ~jsonStats.set
  /\ jsonStats' = StatsJSON(stats)
  /\ UNCHANGED <<sessionVars, helperVars, configVars, lookupVars, loopVars, stats>>

StatsNext == DisplayJSON

StatsSpec == StatsInit /\ [][StatsNext]_vars

(* ------------------- the conversation loop on its own ------------------ *)
\* runConversationLoop with the session taken as one step: processResponse
\* is a call that returns what StreamResponse returned (Spec and FairSpec
\* follow the session itself), here any of a few answers or an error.

LoopInit ==
  /\ InitSession
  /\ IdleHelpers /\ IdleConfig /\ IdleLookup /\ IdleStats
  /\ stdin \in Inputs
  /\ pos = 1
  /\ loopPc = "input"
  /\ mem \in {initMemory(Empty), initMemory(SystemPrompt)}
  /\ outcome = NoResult
  /\ startedFor = << >>
  /\ turn = NoTurn

\* what processResponse may return
Outcomes == {ReturnValue(r, err) : r \in Responses, err \in BOOLEAN}

\* part_005 lines 150-164: one pass from the top of the loop to the call of
\* processResponse, to the continue or to the return
ReadInput ==
  /\ loopPc = "input"
  /\ LET read == GetUserInput(stdin, pos)
         in   == handleUserInput(read)
     IN  /\ pos' = (IF read.err = "EOF" THEN pos ELSE pos + 1)
         /\ IF in.shouldExit
            THEN /\ loopPc' = "exit"
                 /\ turn' = [before |-> mem,
                             kind |-> IF read.err = "EOF" THEN "eof" ELSE "quit"]
                 /\ mem' = mem
            ELSE IF ~IsValidMessage(in.message)
            THEN /\ loopPc' = "input"
                 /\ turn' = [before |-> mem, kind |-> "skipped"]
                 /\ mem' = mem
            ELSE /\ loopPc' = "process"
                 /\ turn' = [before |-> mem, kind |-> "open"]
                 /\ mem' = AddUserMessage(mem, in.message)
  /\ UNCHANGED <<sessionVars, helperVars, configVars, lookupVars, statsVars>>
  /\ UNCHANGED <<stdin, outcome, startedFor>>

\* part_005 lines 166-170: the session of the turn, started with the history
\* whose last entry is the user message, and the test of its error
ProcessResponse(res) ==
  /\ loopPc = "process"
  /\ startedFor' = Append(startedFor, mem[Len(mem)].content)
  /\ outcome' = res
  /\ loopPc' = AfterResult(res.err)
  /\ turn' = (IF res.err THEN [turn EXCEPT !.kind = "failed"] ELSE turn)
  /\ UNCHANGED <<sessionVars, helperVars, configVars, lookupVars, statsVars>>
  /\ UNCHANGED <<stdin, pos, mem>>

\* part_005 lines 172-175: displayResults, then the assistant message
DisplayAndStore ==
  /\ loopPc = "display"
  /\ mem' = AddAssistantMessage(mem, removeThinkingBlocks(outcome.response))
  /\ loopPc' = "input"
  /\ turn' = [turn EXCEPT !.kind = "ok"]
  /\ UNCHANGED <<sessionVars, helperVars, configVars, lookupVars, statsVars>>
  /\ UNCHANGED <<stdin, pos, outcome, startedFor>>

LoopNext ==
  \/ ReadInput
  \/ \E res \in Outcomes : ProcessResponse(res)
  \/ DisplayAndStore

LoopSpec == LoopInit /\ [][LoopNext]_vars

(* ------------------------- reference notions --------------------------- *)

\* the concatenation of a sequence of fragments
RECURSIVE Flatten(_)
Flatten(ss) == IF ss = << >> THEN << >> ELSE Head(ss) \o Flatten(Tail(ss))

\* a is obtained from b by deleting elements
RECURSIVE IsSubsequence(_, _)
IsSubsequence(a, b) ==
  IF a = << >> THEN TRUE
  ELSE IF b = << >> THEN FALSE
  ELSE IF Head(a) = Head(b) THEN IsSubsequence(Tail(a), Tail(b))
  ELSE IsSubsequence(a, Tail(b))

\* the non-empty fragments of evs
RECURSIVE NonEmpty(_)
NonEmpty(evs) ==
  IF evs = << >> THEN << >>
  ELSE IF Head(evs) = << >> THEN NonEmpty(Tail(evs))
  ELSE <<Head(evs)>> \o NonEmpty(Tail(evs))

\* the non-empty fragments of evs that lie outside the thinking segments: a
\* segment runs from a start delimiter met outside a segment to the first end
\* delimiter after it, or to the end of the stream
RECURSIVE Visible(_, _)
Visible(evs, inside) ==
  IF evs = << >> THEN << >>
  ELSE LET h == Head(evs) t == Tail(evs) IN
       IF h = << >> THEN Visible(t, inside)
       ELSE IF inside THEN Visible(t, h # endThinkTag)
       ELSE IF h = startThinkTag THEN Visible(t, TRUE)
       ELSE <<h>> \o Visible(t, FALSE)

\* the fragments whose send has been started
Sent == IF pc = "send" THEN Append(received, text) ELSE received

\* the chunk delivered by the step, when the step is an iteration of the loop
Delivered == pc = "next" /\ Len(events') = Len(events) + 1
DeliveredText == events'[Len(events')]

\* the session of the last StartSession has returned to its caller
Returned == mainPc = "input" /\ result.set

Example == <<startThinkTag, Reasoning, endThinkTag, Answer>>

HasPair(evs) ==
  \E i, j \in DOMAIN evs : i < j /\ evs[i] = startThinkTag /\ evs[j] = endThinkTag

FirstStart(evs) == Min({i \in DOMAIN evs : evs[i] = startThinkTag})
FirstEndAfter(evs, i) == Min({j \in DOMAIN evs : j > i /\ evs[j] = endThinkTag})

(* ------------------------------ claims --------------------------------- *)

\* C1: with hide-thinking enabled the consumer receives exactly the non-empty
\* fragments outside the thinking segments, in arrival order; for the stream
\* <think>, reasoning, </think>, answer it receives exactly answer.
C1_HiddenThinkingNotForwarded ==
  hideThinking =>
    /\ Sent = Visible(events, FALSE)
    /\ (mainPc # "range" => received = Visible(events, FALSE))
    /\ (events = Example /\ chunkChan = "closed" => received = <<Answer>>)
    /\ \A i \in DOMAIN received : received[i] # startThinkTag

C1_Witness ==
  hideThinking /\ events = Example /\ received = <<Answer>> /\ Returned

C3_StartTagAlwaysConsumed ==
  [][(Delivered /\ DeliveredText = startThinkTag /\ ~inThinkingBlock)
       => (inThinkingBlock' /\ pc' = "next" /\ fullResponse' = fullResponse
           /\ received' = received)]_vars

\* C3 amended: a start delimiter met outside thinking sets inThinkingBlock; it
\* is consumed when hide-thinking is enabled, and it is sent on the channel and
\* then appended to the buffer when hide-thinking is disabled.
C3_StartTagConsumedWhenHidden ==
  [][/\ (Delivered /\ DeliveredText = startThinkTag /\ ~inThinkingBlock)
          => /\ inThinkingBlock'
             /\ fullResponse' = fullResponse /\ received' = received
             /\ IF hideThinking THEN pc' = "next"
                ELSE pc' = "send" /\ text' = startThinkTag
     /\ (pc = "send" /\ pc' # "send")
          => /\ received' = Append(received, text)
             /\ fullResponse' = fullResponse \o text]_vars

C3_Witness ==
  /\ ~hideThinking /\ pc = "next" /\ inThinkingBlock
  /\ events = <<Answer, startThinkTag>>
  /\ received = <<Answer, startThinkTag>>
  /\ fullResponse = Answer \o startThinkTag

\* C4 as stated: an end delimiter met inside thinking clears inThinkingBlock
\* and is never emitted, whatever hide-thinking is.
C4_EndTagAlwaysConsumed ==
  [][(Delivered /\ DeliveredText = endThinkTag /\ inThinkingBlock)
       => (~inThinkingBlock' /\ pc' = "next" /\ fullResponse' = fullResponse
           /\ received' = received)]_vars

\* C4 amended: an end delimiter met inside thinking clears inThinkingBlock; it
\* is consumed when hide-thinking is enabled and sent and buffered when it is
\* disabled; no other fragment is lost because of it: outside thinking every
\* non-empty fragment other than a start delimiter is sent, under both
\* policies.
C4_EndTagConsumedWhenHidden ==
  [][/\ (Delivered /\ DeliveredText = endThinkTag /\ inThinkingBlock)
          => /\ ~inThinkingBlock'
             /\ fullResponse' = fullResponse /\ received' = received
             /\ IF hideThinking THEN pc' = "next"
                ELSE pc' = "send" /\ text' = endThinkTag
     /\ (Delivered /\ ~inThinkingBlock /\ DeliveredText # << >>
           /\ DeliveredText # startThinkTag)
          => (pc' = "send" /\ text' = DeliveredText /\ ~inThinkingBlock')]_vars

C4_Witness ==
  /\ hideThinking /\ pc = "next" /\ ~inThinkingBlock
  /\ events = <<startThinkTag, Reasoning, endThinkTag, Answer>>
  /\ received = <<Answer>>

C6_ClosedOnceAfterLastFragment ==
  /\ [](/\ closes <= 1
        /\ ~panicked
        /\ (chunkChan = "closed" <=> closes = 1)
        /\ (chunkChan = "closed" => pc \in {"ret", "idle"} /\ Sent = received)
        /\ (pc = "send" => chunkChan = "open")
        /\ (pc \in {"ret", "idle"} /\ sessions > 0 => closes = 1))
  /\ [][chunkChan' # chunkChan /\ chunkChan' = "closed"
          => pc = "close" /\ UNCHANGED <<mainPc, received>>]_vars

C6_Witness ==
  /\ Returned /\ result.err /\ closes = 1 /\ chunkChan = "closed"
  /\ Len(received) >= 1

C8_ErrorAfterFinalization ==
  ((resultChan # << >> /\ Head(resultChan).err) \/ (result.set /\ result.err)) =>
    /\ finalized.done
    /\ c.endTime = finalized.at
    /\ c.endTime >= c.startTime
    /\ chunkChan = "closed"
    /\ IF c.thinkingStart # ZeroTime
       THEN /\ c.thinkingDuration = finalized.thinkingDuration + (c.endTime - c.thinkingStart)
            /\ c.responseDuration = finalized.responseDuration
       ELSE IF c.responseStart # ZeroTime
       THEN /\ c.responseDuration = finalized.responseDuration + (c.endTime - c.responseStart)
            /\ c.thinkingDuration = finalized.thinkingDuration
       ELSE /\ c.thinkingDuration = finalized.thinkingDuration
            /\ c.responseDuration = finalized.responseDuration

C8_Witness ==
  /\ result.set /\ result.err /\ finalized.done
  /\ c.thinkingDuration > finalized.thinkingDuration
  /\ sessions = 1

\* C9: with a finite transport sequence that ends in end-of-stream or error
\* and a consumer that receives until the channel is closed, every session
\* terminates: the producer returns, the range loop ends and the caller gets
\* the result.
C9_SessionTerminates ==
  (mainPc = "range") ~> (Returned /\ pc = "idle")

C9_Witness ==
  Returned /\ pc = "idle" /\ sessions = 2 /\ Len(received) >= 1

\* C10: the result of a session is available to the caller only after every
\* sent fragment has been received and the channel has been closed.
C10_ResultAfterDrain ==
  /\ [](resultChan # << >> \/ result.set =>
          /\ chunkChan = "closed"
          /\ pc \in {"idle"}
          /\ mainPc # "range" \/ resultChan # << >>
          /\ received = (IF hideThinking THEN Visible(events, FALSE) ELSE NonEmpty(events)))
  /\ [][result' # result /\ result'.set
          => mainPc = "result" /\ chunkChan = "closed" /\ pc = "idle"]_vars

C10_Witness ==
  /\ Returned /\ ~result.err /\ chunkChan = "closed"
  /\ Len(received) >= 2 /\ Len(events) > Len(received)

\* the session of the last StartSession has run its final lock section
Completed == finalized.done

\* the elements of a sequence
Range(q) == {q[i] : i \in DOMAIN q}

\* C11: once every started session has returned, each lifetime total equals
\* the sum of the final current counters of the sessions, however many usage
\* summaries a session received.
C11_TotalsAreSumOfFinals ==
  pc = "idle" =>
    /\ c.totalInputTokens = hist.sumIn
    /\ c.totalOutputTokens = hist.sumOut

\* C12: the current counters never exceed the lifetime totals, and no step
\* decreases a lifetime total.
C12_CurrentWithinTotals ==
  /\ [](/\ c.currentInputTokens <= c.totalInputTokens
        /\ c.currentOutputTokens <= c.totalOutputTokens)
  /\ [][/\ c'.totalInputTokens >= c.totalInputTokens
         /\ c'.totalOutputTokens >= c.totalOutputTokens]_vars

C12_Witness ==
  /\ sessions = 2 /\ pc = "next"
  /\ c.currentOutputTokens = 0 /\ c.totalOutputTokens = 4
  /\ c.totalInputTokens = 2

\* C13: in every state, over any sequence of sessions, at most one of the two
\* interval markers is set.
C13_AtMostOneOpen ==
  ~(c.thinkingStart # ZeroTime /\ c.responseStart # ZeroTime)

\* C14: at the completion of every session that had a non-empty fragment, the
\* two durations add up to the time from that fragment to the end of the
\* session.
C14_DurationsCoverSession ==
  Completed /\ hist.firstAt # ZeroTime =>
    c.thinkingDuration + c.responseDuration = c.endTime - hist.firstAt

\* C15: a completed session that had no non-empty fragment and exactly one
\* usage summary with a positive input count has the values of that summary
\* as current counters and both durations zero, whatever ran before.
C15_ContentFreeSession ==
  Completed /\ NonEmpty(events) = << >> /\ Len(hist.usages) = 1 =>
    /\ c.currentInputTokens = hist.usages[1][1]
    /\ c.currentOutputTokens = hist.usages[1][2]
    /\ c.thinkingDuration = 0
    /\ c.responseDuration = 0

\* C16: after the reset of a session and before its first chunk, the current
\* counters, the two durations and the two interval markers are all zero.
C16_ResetZeroesCurrentState ==
  pc = "next" /\ events = << >> =>
    /\ c.currentInputTokens = 0
    /\ c.currentOutputTokens = 0
    /\ c.thinkingDuration = 0
    /\ c.responseDuration = 0
    /\ c.thinkingStart = ZeroTime
    /\ c.responseStart = ZeroTime

\* C17: every operation that touches the counters or the timing fields holds
\* the mutex of the client during the access.
C17_EveryAccessLocked ==
  hist.locked

\* C18: a GetStats at any point of a running session returns as token pair
\* (0, 0) or the pair of one usage summary of the session, and as durations
\* the values the accumulator holds.
C18_StatsAreConsistent ==
  LET st   == GetStats(c)
      pair == <<st.InputTokens, st.OutputTokens>>
  IN  /\ pair \in {<<0, 0>>} \cup {u \in Usages : u[1] > 0}
      /\ pc \in {"next", "send", "final", "close", "ret"} =>
            pair \in {<<0, 0>>} \cup Range(hist.usages)
      /\ st.ThinkingTime = c.thinkingDuration
      /\ st.ResponseTime = c.responseDuration

C18_Witness ==
  /\ pc = "send" /\ sessions = 2
  /\ GetStats(c).InputTokens = 1 /\ GetStats(c).OutputTokens = 2
  /\ c.totalOutputTokens = 4

\* sub occurs in s at position i (1-based)
OccursAt(s, sub, i) ==
  /\ i + Len(sub) - 1 <= Len(s)
  /\ \A k \in 1..Len(sub) : s[i + k - 1] = sub[k]

\* the position of the first start delimiter of s
StartOf(s) == Min({i \in 1..Len(s) : OccursAt(s, startThinkTag, i)})

\* the position of the first end delimiter of s that follows position i
EndAfter(s, i) == Min({j \in 1..Len(s) : j > i /\ OccursAt(s, endThinkTag, j)})

\* s has a start delimiter and an end delimiter after the first of them
HasCompletePair(s) ==
  \E i \in 1..Len(s) :
    /\ OccursAt(s, startThinkTag, i)
    /\ \A h \in 1..(i - 1) : ~OccursAt(s, startThinkTag, h)
    /\ \E j \in 1..Len(s) : j > i /\ OccursAt(s, endThinkTag, j)

\* r is x without its leading and trailing white space
IsTrimOf(r, x) ==
  \E i, j \in 0..Len(x) :
    /\ i + j <= Len(x)
    /\ r = SubSeq(x, i + 1, Len(x) - j)
    /\ \A k \in 1..i : x[k] \in WhiteSpace
    /\ \A k \in (Len(x) - j + 1)..Len(x) : x[k] \in WhiteSpace
    /\ r # << >> => r[1] \notin WhiteSpace /\ r[Len(r)] \notin WhiteSpace

\* C19: extractThinkingBlocks returns the text from the first start delimiter
\* through the first end delimiter after it, delimiters included and trimmed,
\* and the empty string when there is no such pair.
C19_ExtractReturnsFirstBlock ==
  blocks.extracted =>
    IF HasCompletePair(str)
    THEN LET i == StartOf(str)
             j == EndAfter(str, i)
         IN  IsTrimOf(blocks.thinking, SubSeq(str, i, j + Len(endThinkTag) - 1))
    ELSE blocks.thinking = << >>

C19_Witness ==
  /\ blocks.extracted
  /\ str = endThinkTag \o startThinkTag \o <<"a">> \o endThinkTag
  /\ blocks.thinking = startThinkTag \o <<"a">> \o endThinkTag

\* C20: removeThinkingBlocks returns the text after the first complete pair,
\* trimmed, and the string itself, untrimmed, when there is no complete pair.
C20_RemoveReturnsTextAfterBlock ==
  blocks.removed =>
    IF HasCompletePair(str)
    THEN LET i == StartOf(str)
             j == EndAfter(str, i)
         IN  IsTrimOf(blocks.response, SubSeq(str, j + Len(endThinkTag), Len(str)))
    ELSE blocks.response = str

C20_Witness ==
  /\ blocks.removed
  /\ str = startThinkTag \o endThinkTag \o <<"\n", "a">>
  /\ blocks.response = <<"a">>

\* the thinking block and the stripped response of str, put together again
Recombined == blocks.thinking \o blocks.response

\* C21 as stated: stripping the recombination of the thinking block and the
\* stripped response of a string with a complete pair gives the
\* recombination itself.
C21_StripKeepsRecombination ==
  blocks.removed /\ blocks.extracted /\ HasCompletePair(str) =>
    removeThinkingBlocks(Recombined) = Recombined

\* C21: stripping the recombination of the thinking block and the stripped
\* response of a string with a complete pair gives the stripped response: the
\* thinking block is removed again.
C21_StripOfRecombinationIsResponse ==
  blocks.removed /\ blocks.extracted /\ HasCompletePair(str) =>
    /\ removeThinkingBlocks(Recombined) = blocks.response
    /\ extractThinkingBlocks(Recombined) = blocks.thinking

C21_Witness ==
  /\ blocks.removed /\ blocks.extracted
  /\ str = <<"a">> \o startThinkTag \o endThinkTag \o <<"a">>
  /\ Recombined = startThinkTag \o endThinkTag \o <<"a">>
  /\ removeThinkingBlocks(Recombined) = <<"a">>

\* C22: the text an assistant message is stored with has no complete pair of
\* delimiters, whatever the response of the session holds.
C22_StoredResponseHasNoBlock ==
  mainPc = "display" => ~HasCompletePair(StoredResponse)

\* the fragments of the delivered chunks that are to be forwarded
Forwardable ==
  IF hideThinking THEN Visible(events, FALSE) ELSE NonEmpty(events)

\* C23: at most one forwarded fragment is in flight: of the fragments to be
\* forwarded among the chunks taken so far, all but at most the last have
\* been received, and the producer takes a chunk only when all have been.
C23_OneFragmentInFlight ==
  /\ [](/\ Len(Forwardable) - Len(received) \in {0, 1}
        /\ Len(Forwardable) - Len(received) = 1 <=> pc = "send")
  /\ [][Len(events') = Len(events) + 1 => Len(received) = Len(Forwardable)]_vars

C23_Witness ==
  /\ pc = "send" /\ Len(received) = 2 /\ Len(Forwardable) = 3
  /\ mainPc = "range"

\* C24: a model typed on the command line, and a temperature typed there
\* within 0.0-2.0 (0.0 included), is the one of the configuration, whatever
\* the environment holds.
C24_CommandLineTakesPrecedence ==
  config.loaded =>
    /\ cmdline.modelGiven => config.Model = cmdline.model
    /\ cmdline.temperatureGiven /\ InRange(cmdline.temperature) =>
          config.Temperature = cmdline.temperature

\* C25: with hide-thinking the returned response holds nothing that arrived
\* from a start delimiter through its end delimiter: it is the concatenation
\* of the fragments outside the thinking segments, has no start delimiter, and
\* extractThinkingBlocks of it is empty.
C25_HiddenThinkingNotStored ==
  hideThinking =>
    /\ Index(fullResponse, startThinkTag) = -1
    /\ result.set =>
          /\ Index(result.response, startThinkTag) = -1
          /\ extractThinkingBlocks(result.response) = << >>
          /\ ~result.err => result.response = Flatten(Visible(events, FALSE))

C25_Witness ==
  /\ hideThinking /\ result.set /\ ~result.err
  /\ events = <<startThinkTag, Reasoning, endThinkTag, endThinkTag>>
  /\ result.response = endThinkTag

\* the delivered fragment is the end delimiter that closes a thinking block
\* under hide-thinking, the one fragment dropped as a delimiter
ConsumedEndTag ==
  hideThinking /\ inThinkingBlock /\ DeliveredText = endThinkTag

\* C26: a non-empty fragment that is not consumed as a delimiter is sent, and
\* then buffered and received, exactly when hide-thinking is off or the
\* producer is outside thinking after the transition the fragment made.
C26_AcceptedAfterTransition ==
  /\ [][Delivered /\ DeliveredText # << >> /\ ~ConsumedEndTag =>
          /\ pc' = "send" <=> (~hideThinking \/ ~inThinkingBlock')
          /\ pc' = "send" => text' = DeliveredText]_vars
  /\ [][pc = "send" /\ pc' = "next" =>
          /\ received' = Append(received, text)
          /\ fullResponse' = fullResponse \o text]_vars

C26_Witness ==
  /\ hideThinking /\ pc = "send" /\ text = Answer
  /\ events = <<startThinkTag, endThinkTag, Answer>>
  /\ ~inThinkingBlock

Counters(cl) ==
  <<cl.currentInputTokens, cl.currentOutputTokens,
    cl.totalInputTokens, cl.totalOutputTokens>>

\* C27: the iteration for a chunk whose usage has a positive input count sets
\* the two current counters to the reported values; the iteration for a chunk
\* whose usage has input count zero leaves the four counters as they were,
\* also when its completion count is positive.
C27_UsageNeedsPositiveInput ==
  [][\A e \in Chunks : NextChunk(e) =>
        IF e.usage[1] > 0
        THEN /\ c'.currentInputTokens = e.usage[1]
             /\ c'.currentOutputTokens = e.usage[2]
        ELSE Counters(c') = Counters(c)]_vars

C27_Witness ==
  /\ sessions = 1 /\ pc = "next" /\ Len(events) = 3
  /\ Len(hist.usages) = 2
  /\ Counters(c) = <<1, 2, 2, 4>>

\* C28: the iteration for a chunk without choices or with empty content
\* leaves the thinking flag, the started flag, both markers, both durations,
\* the buffer and the channel as they were.
C28_EmptyChunkChangesNothing ==
  [][Delivered /\ DeliveredText = << >> =>
       /\ UNCHANGED <<inThinkingBlock, responseStarted, fullResponse,
                      chunkChan, received, text>>
       /\ pc' = "next"
       /\ c'.thinkingStart = c.thinkingStart
       /\ c'.responseStart = c.responseStart
       /\ c'.thinkingDuration = c.thinkingDuration
       /\ c'.responseDuration = c.responseDuration]_vars

C28_Witness ==
  /\ pc = "next" /\ inThinkingBlock /\ responseStarted
  /\ events = <<startThinkTag, << >>, << >>>>
  /\ c.currentInputTokens = 1
  /\ c.thinkingStart = c.startTime + 1

\* C29: after the first non-empty fragment of a session, when it is ordinary
\* text, the open response interval starts at the arrival of that fragment.
C29_ResponseStartsAtFirstFragment ==
  /\ pc \in {"next", "send"}
  /\ Len(NonEmpty(events)) = 1
  /\ NonEmpty(events)[1] # startThinkTag
  => c.responseStart = hist.firstAt

\* the response interval open when the step begins, as the first fragment of
\* a session opens one at its arrival
OpenResponse(t) == IF c.responseStart # ZeroTime THEN t - c.responseStart ELSE 0
OpenThinking(t) == IF c.thinkingStart # ZeroTime THEN t - c.thinkingStart ELSE 0

\* C30: a start delimiter met outside thinking adds the open response interval
\* to responseDuration, clears responseStart and sets thinkingStart; an end
\* delimiter met inside thinking adds the open thinking interval to
\* thinkingDuration, clears thinkingStart and sets responseStart, with or
\* without hide-thinking.
C30_TransitionsMoveTheInterval ==
  /\ [][Delivered /\ DeliveredText = startThinkTag /\ ~inThinkingBlock =>
          /\ c'.responseDuration = c.responseDuration + OpenResponse(now')
          /\ c'.responseStart = ZeroTime
          /\ c'.thinkingStart = now'
          /\ c'.thinkingDuration = c.thinkingDuration]_vars
  /\ [][Delivered /\ DeliveredText = endThinkTag /\ inThinkingBlock =>
          /\ c'.thinkingDuration = c.thinkingDuration + OpenThinking(now')
          /\ c'.thinkingStart = ZeroTime
          /\ c'.responseStart = now'
          /\ c'.responseDuration = c.responseDuration]_vars

C30_Witness ==
  /\ hideThinking /\ pc = "next" /\ sessions = 1
  /\ events = <<Answer, startThinkTag, Reasoning, endThinkTag>>
  /\ c.responseDuration = 1 /\ c.thinkingDuration = 2
  /\ c.responseStart = now /\ c.thinkingStart = ZeroTime

(* ------------------------------- C31 ---------------------------------- *)
\* C31: after every finished session, completed or failed, the interval that
\* was still open has been closed and its marker cleared: thinkingStart and
\* responseStart are both unset, and endTime is not before startTime.
C31_FinishedSessionClosesIntervals ==
  Completed =>
    /\ c.thinkingStart = ZeroTime
    /\ c.responseStart = ZeroTime
    /\ c.endTime >= c.startTime

(* ------------------------------- C34 ---------------------------------- *)
\* the timing of the step is that of ordinary content: nothing moves
TimingUnchanged ==
  /\ c'.thinkingStart = c.thinkingStart
  /\ c'.responseStart = c.responseStart
  /\ c'.thinkingDuration = c.thinkingDuration
  /\ c'.responseDuration = c.responseDuration

\* the timing of the step is that of ordinary content, the first non-empty
\* fragment of a session included: it opens the response interval when no
\* marker of the response is set
TimingOfContent ==
  /\ c'.thinkingStart = c.thinkingStart
  /\ c'.thinkingDuration = c.thinkingDuration
  /\ c'.responseDuration = c.responseDuration
  /\ c'.responseStart =
       IF ~responseStarted /\ c.responseStart = ZeroTime
       THEN now' ELSE c.responseStart

\* a start delimiter inside thinking keeps the segment open and is thinking
\* content; the end delimiter inside thinking ends the segment
NestedStartKeepsSegment ==
  /\ [][Delivered /\ DeliveredText = startThinkTag /\ inThinkingBlock =>
          /\ inThinkingBlock'
          /\ TimingUnchanged
          /\ pc' = (IF hideThinking THEN "next" ELSE "send")]_vars
  /\ [][Delivered /\ DeliveredText = endThinkTag /\ inThinkingBlock =>
          ~inThinkingBlock']_vars

\* C34 as stated: an end delimiter outside thinking leaves the thinking flag
\* and the timing unchanged and is forwarded and buffered, also with
\* hide-thinking; a start delimiter inside thinking leaves the flag unchanged
\* and the next end delimiter ends the segment.
C34_UnmatchedDelimiterChangesNothing ==
  /\ [][Delivered /\ DeliveredText = endThinkTag /\ ~inThinkingBlock =>
          /\ ~inThinkingBlock'
          /\ TimingUnchanged
          /\ pc' = "send" /\ text' = endThinkTag]_vars
  /\ NestedStartKeepsSegment

\* C34, amended: an end delimiter outside thinking leaves the thinking flag
\* unchanged, moves the timing only as any ordinary fragment does (as the
\* first non-empty fragment of a session it opens the response interval), and
\* is forwarded and then buffered, also with hide-thinking; a start delimiter
\* inside thinking leaves flag and timing unchanged, and the end delimiter
\* that follows ends the segment however many start delimiters preceded it.
C34_UnmatchedDelimiterIsContent ==
  /\ [][Delivered /\ DeliveredText = endThinkTag /\ ~inThinkingBlock =>
          /\ ~inThinkingBlock'
          /\ TimingOfContent
          /\ pc' = "send" /\ text' = endThinkTag]_vars
  /\ [][pc = "send" /\ text = endThinkTag /\ pc' = "next" =>
          /\ received' = Append(received, endThinkTag)
          /\ fullResponse' = fullResponse \o endThinkTag]_vars
  /\ NestedStartKeepsSegment

C34_Witness ==
  /\ hideThinking /\ pc = "next" /\ sessions = 1
  /\ events = <<Answer, endThinkTag, startThinkTag, startThinkTag>>
  /\ received = <<Answer, endThinkTag>>
  /\ fullResponse = Answer \o endThinkTag
  /\ inThinkingBlock
  /\ c.thinkingStart = c.startTime + 3

(* ------------------------------- C35 ---------------------------------- *)
Max(S) == CHOOSE x \in S : \A y \in S : x >= y

\* after the first n fragments of evs the stream is inside a thinking segment
RECURSIVE InsideAfter(_, _)
InsideAfter(evs, n) ==
  IF n = 0 THEN FALSE
  ELSE IF InsideAfter(evs, n - 1) THEN evs[n] # endThinkTag
  ELSE evs[n] = startThinkTag

\* the position of the start delimiter that opened the last segment of evs
OpenAt(evs) ==
  Max({i \in DOMAIN evs : evs[i] = startThinkTag /\ ~InsideAfter(evs, i - 1)})

\* the fragments that arrived before that start delimiter
BeforeOpen(evs) == SubSeq(evs, 1, OpenAt(evs) - 1)

\* the session has returned while its stream stood inside a thinking segment
\* and hide-thinking was on
EndedInsideHidden == hideThinking /\ inThinkingBlock /\ result.set

\* the time from the arrival of the start delimiter to the end of the stream
\* went to thinkingDuration and none of it to responseDuration
ThinkingCredited ==
  /\ c.thinkingDuration =
       finalized.thinkingDuration + (finalized.at - (c.startTime + OpenAt(events)))
  /\ c.responseDuration = finalized.responseDuration

C37_TextBeforeBlockIsLost ==
  blocks.removed /\ HasCompletePair(str) =>
    LET i    == StartOf(str)
        j    == EndAfter(str, i)
        rest == j + Len(endThinkTag)
        r    == blocks.response
    IN  /\ \E k \in rest..(Len(str) - Len(r) + 1) : r = SubSeq(str, k, k + Len(r) - 1)
        /\ (\A k \in rest..Len(str) : str[k] \in WhiteSpace) => r = << >>

C37_Witness ==
  /\ blocks.removed
  /\ str = <<"a">> \o startThinkTag \o <<"a">> \o endThinkTag
  /\ blocks.response = << >>

(* ---------------- the stream cut at other places (C32) ----------------- *)
\* The transport is free to cut the text of the model anywhere. SplitSpec
\* runs the same sessions over fragments that are a delimiter, a proper part
\* of one, or a delimiter together with other text.
SplitHead     == <<"<", "t", "h", "i">>
SplitTail     == <<"n", "k", ">">>
TaggedAnswer  == startThinkTag \o Answer
ClosedReasoning == Reasoning \o endThinkTag

SplitContents ==
  {startThinkTag, endThinkTag, SplitHead, SplitTail, TaggedAnswer, ClosedReasoning}

SplitChunks ==
  {[choices |-> 1, content |-> t, usage |-> <<0, 0>>] : t \in SplitContents}

SplitNext ==
  \/ StartSession
  \/ Reset
  \/ \E e \in SplitChunks : NextChunk(e)
  \/ EndOfStream
  \/ StreamError
  \/ Finalize
  \/ Close
  \/ Return
  \/ Receive
  \/ RangeEnds
  \/ TakeResult
  \/ \E json \in BOOLEAN : DisplayResults(json)
  \/ \E json \in BOOLEAN : Exit(json)

SplitSpec == Init /\ [][SplitNext]_vars

\* the delivered fragment is not empty and is not exactly a delimiter
DeliveredOther ==
  Delivered /\ DeliveredText \notin {<< >>, startThinkTag, endThinkTag}

\* the fragment is handled as content of the segment the stream stands in: it
\* is sent unless that segment is a hidden thinking segment, and the step
\* raises no error
HandledAsContent ==
  /\ inThinkingBlock' = inThinkingBlock
  /\ streamErr' = streamErr
  /\ pc' = (IF hideThinking /\ inThinkingBlock THEN "next" ELSE "send")
  /\ pc' = "send" => text' = DeliveredText

\* while no fragment was exactly a delimiter, nothing is hidden
NothingHiddenWithoutDelimiter ==
  (\A i \in DOMAIN events : events[i] \notin {startThinkTag, endThinkTag}) =>
     /\ ~inThinkingBlock \/ pc = "reset"
     /\ pc \in {"next", "send"} => Sent = NonEmpty(events)

\* C32 as stated: a fragment that is a proper part of a delimiter, or holds a
\* delimiter together with other text, changes neither the thinking flag nor
\* the timing, is no error, and is handled as content of the current segment;
\* a delimiter split over two fragments does not start hiding.
C32_OnlyExactDelimiterChangesAnything ==
  /\ [][DeliveredOther => HandledAsContent /\ TimingUnchanged]_vars
  /\ []NothingHiddenWithoutDelimiter

\* C32, amended: such a fragment does not change the thinking flag, moves the
\* timing only as any ordinary fragment does (as the first non-empty fragment
\* of a session it opens the response interval), is no error, and is handled
\* as content of the current segment; a delimiter split over two fragments
\* does not start hiding.
C32_OnlyExactDelimiterChangesSegment ==
  /\ [][DeliveredOther => HandledAsContent /\ TimingOfContent]_vars
  /\ []NothingHiddenWithoutDelimiter

C32_Witness ==
  /\ hideThinking /\ pc = "next" /\ sessions = 1 /\ ~inThinkingBlock
  /\ events = <<SplitHead, SplitTail, TaggedAnswer, ClosedReasoning>>
  /\ received = events
  /\ c.thinkingStart = ZeroTime /\ c.responseStart = c.startTime + 1

(* ------------------------------- C33 ---------------------------------- *)
\* the model list was fetched and the requested model is not in it
ListWithoutModel ==
  lookup.server.kind = "list" /\ lookup.model \notin lookup.server.models

\* a failure other than the model being absent: no connection, a body that
\* cannot be read or decoded, a reply other than 200 and 404
OtherFailure ==
  \/ lookup.server.kind \in {"connect", "read", "undecodable"}
  \/ lookup.server.kind = "status" /\ lookup.server.status # StatusNotFound

\* C33: CheckModelExists returns (false, nil) whenever the list was fetched
\* and does not hold the requested model, and returns an error only for a
\* failure other than the model being absent.
C33_AbsentModelIsNoError ==
  found.set =>
    /\ ListWithoutModel => ~found.exists /\ ~found.err.failed
    /\ found.err.failed => OtherFailure

(* ------------------------------- C38 ---------------------------------- *)
\* C38: in the JSON statistics the token total is the sum of the input and
\* output counts, and total_ms is the sum of thinking_ms and response_ms, for
\* all durations in nanoseconds turned into milliseconds by truncation.
C38_TotalsAreSums ==
  jsonStats.set =>
    /\ jsonStats.tokens.total = jsonStats.tokens.input + jsonStats.tokens.output
    /\ jsonStats.time.total_ms =
         jsonStats.time.thinking_ms + jsonStats.time.response_ms

(* ------------------------------- C36 ---------------------------------- *)
\* a is the beginning of b
IsPrefix(a, b) == Len(a) <= Len(b) /\ SubSeq(b, 1, Len(a)) = a

\* the roles of the entries the turn has added to the history
AddedRoles ==
  [i \in 1..(Len(mem) - Len(turn.before)) |-> mem[Len(turn.before) + i].role]

\* C36: a turn whose session fails leaves its user message in the history and
\* adds no assistant message; a turn whose session succeeds adds one assistant
\* message after the user message; so the history grows by one entry on a
\* failed turn and by two on a successful one, and no step removes or
\* reorders earlier entries.
C36_HistoryGrowsByTurn ==
  /\ [][IsPrefix(mem, mem')]_vars
  /\ [](IsPrefix(turn.before, mem))
  /\ [](turn.kind = "failed" => AddedRoles = <<"user">>)
  /\ [](turn.kind = "ok" => AddedRoles = <<"user", "assistant">>)
  /\ [][loopPc = "process" /\ outcome'.err =>
          mem' = mem /\ loopPc' = "input" /\ turn'.kind = "failed"]_vars
  /\ [][loopPc = "process" /\ ~outcome'.err =>
          mem' = mem /\ loopPc' = "display"]_vars
  /\ [][loopPc = "display" =>
          /\ Len(mem') = Len(mem) + 1
          /\ mem'[Len(mem')].role = "assistant"
          /\ turn'.kind = "ok"]_vars

C36_Witness ==
  /\ loopPc = "input" /\ turn.kind = "failed"
  /\ mem = <<Message("system", SystemPrompt), Message("user", Hello),
             Message("assistant", Answer), Message("user", Hello)>>
  /\ outcome.err /\ outcome.response = << >>

(* ------------------------------- C39 ---------------------------------- *)
\* the read of this step finds the end of the input
AtEnd == pos > Len(stdin.items)

\* the read of this step finds a line
AtLine == ~AtEnd /\ stdin.items[pos].kind = "line"

\* the texts of the lines of items that are not empty
RECURSIVE NonEmptyLines(_)
NonEmptyLines(items) ==
  IF items = << >> THEN << >>
  ELSE LET it == Head(items) IN
       IF it.kind = "line" /\ it.text # << >>
       THEN <<it.text>> \o NonEmptyLines(Tail(items))
       ELSE NonEmptyLines(Tail(items))

\* the lines of items without their surrounding white space, those left out
\* that are empty then
RECURSIVE TrimmedLines(_)
TrimmedLines(items) ==
  IF items = << >> THEN << >>
  ELSE LET it == Head(items) IN
       IF it.kind = "line" /\ TrimSpace(it.text) # << >>
       THEN <<TrimSpace(it.text)>> \o TrimmedLines(Tail(items))
       ELSE TrimmedLines(Tail(items))

\* the loop has ended at the end of the input
EndedAtEOF == loopPc = "exit" /\ turn.kind = "eof"

\* C39 as stated: the loop ends exactly at a read that finds the line "/quit"
\* or the end of the input; when it ends at the end of the input, the text
\* after the last newline was not sent, and the sessions started are those of
\* the non-empty lines, one for each.
C39_EndsAtQuitLineOrEOF ==
  /\ [][loopPc = "input" =>
          (loopPc' = "exit" <=> AtEnd \/ (AtLine /\ stdin.items[pos].text = Quit))]_vars
  /\ [][loopPc # "input" => loopPc' # "exit"]_vars
  /\ [](EndedAtEOF => startedFor = NonEmptyLines(stdin.items))

\* C39, amended: the same with every line taken without its surrounding
\* white space: the loop ends at a line that is "/quit" after trimming, and a
\* session is started for each line that is not empty after trimming.
C39_EndsAtTrimmedQuitOrEOF ==
  /\ [][loopPc = "input" =>
          (loopPc' = "exit" <=>
             AtEnd \/ (AtLine /\ TrimSpace(stdin.items[pos].text) = Quit))]_vars
  /\ [][loopPc # "input" => loopPc' # "exit"]_vars
  /\ [](EndedAtEOF => startedFor = TrimmedLines(stdin.items))
  /\ [](EndedAtEOF =>
          Len(SelectSeq(mem, LAMBDA m : m.role = "user")) = Len(startedFor))

C39_Witness ==
  /\ EndedAtEOF
  /\ stdin.tail = Hello
  /\ stdin.items = <<Line(Hello), ReadError(Empty), Line(Blank)>>
  /\ startedFor = <<Hello>>

====
